---- MODULE Spec2Model ----
(***************************************************************************)
(* The asynchronous batched-deletion worker pool of the URL shortener      *)
(* (internal/worker/delete_worker.go): a bounded request channel, N worker *)
(* goroutines that accumulate requests into per-worker batches and flush   *)
(* them to the DeleteService on a count or a timer trigger, and a          *)
(* Shutdown that closes the channel and waits for the workers, cancelling  *)
(* the context when its timeout elapses.                                   *)
(*                                                                         *)
(* Go semantics the model keeps:                                           *)
(*   - a select takes any one of its ready cases; default only when none   *)
(*     is ready;                                                           *)
(*   - a send on a closed channel panics, also inside a select and also    *)
(*     for a sender that was already blocked when the channel was closed;  *)
(*   - a receive on a closed channel yields the buffered values first and  *)
(*     ok = false only once the buffer is empty;                           *)
(*   - sync.Once.Do runs f for the first caller; every other caller waits  *)
(*     until that f has returned and then returns without running f;       *)
(*   - a panic unwinds the goroutine it happens in, up to a deferred       *)
(*     recover; the other goroutines go on;                                *)
(*   - time.Timer: the expiry of a timer is a value in its channel, and    *)
(*     when Stop reports that the timer has expired that value is in the   *)
(*     channel for the non-blocking drain that follows.                    *)
(*                                                                         *)
(* The callers follow the lifecycle of the application (app.go): Start is  *)
(* called once, right after NewDeleteWorkerPool, before any Submit or      *)
(* Shutdown.  The buffer capacity is at least 1.  Submit is called by the  *)
(* DELETE handler (handler/http.go line 439), whose router installs        *)
(* chimiddleware.Recoverer (lines 65, 86): a panic inside Submit ends that *)
(* request and is recovered there, and the process keeps running.          *)
(*                                                                         *)
(* Two neighbours of the pool are modelled with it: the generic object     *)
(* pool of internal/pool (New, Put, Get over sync.Pool), and the cleanup   *)
(* of the application (app.go), which closes the database connection and   *)
(* shuts the worker pool down.                                             *)
(***************************************************************************)
EXTENDS Integers, Sequences, FiniteSets, TLC

\* ---------------------------------------------------------------- bounds
\* Config.BufferSize: capacity of requestChan.
BufferSize == 1
\* Config.BatchSize: the flush threshold on totalURLs.
BatchSize == 2
\* Total number of Submit calls the callers make.
MaxSubmits == 2
\* The capacity given to pool.New.
PoolCapacity == 2
\* Put and Get calls on the object pool.
MaxPoolOps == 2 * PoolCapacity + 2

\* Config.WorkerCount = Cardinality(Workers).
Workers == {"w1", "w2"}
\* Goroutines that call Submit.
Callers == {"c1", "c2"}
\* Calls of Shutdown, named in the order in which they reach
\* shutdownOnce.Do: s1 is the call that takes the Once, s2 a repeated or
\* concurrent call.
ShutdownCalls == {"s1", "s2"}
FirstCall == "s1"
\* DeleteRequest.UserID values.
Keys == {"k1", "k2"}
\* DeleteRequest.URLIDs values.
ItemSeqs == {<<>>, <<"a">>, <<"b", "a">>}
Items == {"a", "b"}
\* What a DeleteUserURLs call returns.
Results == {"ok", "err"}

VARIABLES
    started,      \* Start has been called
    requestChan,  \* the buffered values of p.requestChan, oldest first
    closed,       \* close(p.requestChan) has happened (shutdownOnce is taken)
    cancelled,    \* p.cancel() has been called: p.ctx.Done() is closed
    panics,       \* number of Submit calls ended by a panic (recovered)
    worker,       \* per worker goroutine: pc and its local variables
    calls,        \* per worker: the DeleteUserURLs calls it has made, in order
    cpc,          \* per caller: "idle", or "blocked" in Submit's inner select
    creq,         \* per caller: the request a blocked Submit is sending
    nsub,         \* number of Submit calls begun
    accepted,     \* the requests for which Submit returned nil, in order
    spc,          \* per Shutdown call: where it is
    seen,         \* per Shutdown call: Len(accepted) when the call began
    poolItems,    \* the objects held by the object pool (pool.Pool)
    dirty,        \* the objects whose fields hold values a caller has set
    poolLog,      \* the Put and Get calls on the object pool, in order
    dbClosed      \* the application has closed its database connection

\* The variables of the delete worker pool.
workerPoolVars == <<started, requestChan, closed, cancelled, panics, worker,
                    calls, cpc, creq, nsub, accepted, spc, seen>>

\* The variables of the object pool of internal/pool.
poolVars == <<poolItems, dirty, poolLog>>

\* The variables of the application that owns the delete worker pool.
appVars == <<dbClosed>>

vars == <<workerPoolVars, poolVars, appVars>>

\* ---------------------------------------------------------------- helpers
NoReq == [id |-> 0, key |-> "none", items |-> <<>>]

EmptyBatch == [k \in {} |-> 0]

RECURSIVE SumLen(_, _)
SumLen(f, S) ==
    IF S = {} THEN 0
    ELSE LET k == CHOOSE x \in S : TRUE
         IN Len(f[k].items) + SumLen(f, S \ {k})

\* Number of URL ids held in a batch map.
BatchItems(b) == SumLen(b, DOMAIN b)

\* ---------------------------------------------------------------- worker
\* The worker's local variables when the goroutine starts (lines 82-85).
WorkerInit ==
    [pc |-> "idle", batch |-> EmptyBatch, totalURLs |-> 0,
     timer |-> "nil", timerC |-> FALSE,
     why |-> "none", cur |-> "none", res |-> EmptyBatch]

\* A merge that overwrites the key's entry instead of appending to it.
AppendItems_Overwrite(old, new) == new

\* A merge that puts the new items in front of the key's entry.
AppendItems_Prepend(old, new) == new \o old

\* append(batch[req.UserID], req.URLIDs...) (line 167).
AppendItems(old, new) == old \o new

\* batch[req.UserID] = append(...); totalURLs += len(req.URLIDs) (167-168).
\* ids is the bookkeeping of which requests the entry holds.
Merge(s, req) ==
    LET old == IF req.key \in DOMAIN s.batch
               THEN s.batch[req.key]
               ELSE [items |-> <<>>, ids |-> {}]
        new == [items |-> AppendItems(old.items, req.items),
                ids |-> old.ids \cup {req.id}]
    IN [s EXCEPT
          !.batch = [k \in DOMAIN s.batch \cup {req.key} |->
                        IF k = req.key THEN new ELSE s.batch[k]],
          !.totalURLs = s.totalURLs + Len(req.items)]

\* A threshold test that flushes one item early.
ReachedBatchSize_OneEarly(total) == total + 1 >= BatchSize

\* A threshold test that flushes only above the batch size.
ReachedBatchSize_Above(total) == total > BatchSize

\* totalURLs >= p.batchSize (line 170).
ReachedBatchSize(total) == total >= BatchSize

\* A timer that is never armed.
startOrResetTimer_NotArmed(s) == s

\* startOrResetTimer (lines 120-134): a new or a stopped, drained and reset
\* timer is armed with an empty channel, and timerC is its channel.
startOrResetTimer(s) == [s EXCEPT !.timer = "armed", !.timerC = TRUE]

\* A stopTimer without the drain: a pending expiry stays in timer.C.
stopTimer_NoDrain(s) ==
    IF s.timer = "nil" THEN s
    ELSE [s EXCEPT !.timer = IF @ = "fired" THEN "fired" ELSE "stopped",
                   !.timerC = FALSE]

\* stopTimer (lines 136-147): nothing for a nil timer; otherwise the timer
\* is stopped, a pending expiry is drained, and timerC is nil.
stopTimer(s) ==
    IF s.timer = "nil" THEN s
    ELSE [s EXCEPT !.timer = "stopped", !.timerC = FALSE]

\* A processBatch that keeps the keys whose call failed, to retry them.
clearBatch_KeepFailed(s) ==
    LET failed == {k \in DOMAIN s.res : s.res[k] = "err"}
    IN [s EXCEPT !.batch = [k \in failed |-> s.batch[k]],
                 !.totalURLs = SumLen(s.batch, failed),
                 !.cur = "none", !.res = EmptyBatch, !.why = "none"]

\* A processBatch that empties the map but keeps the running count.
clearBatch_KeepCount(s) ==
    [s EXCEPT !.batch = EmptyBatch,
              !.cur = "none", !.res = EmptyBatch, !.why = "none"]

\* The end of processBatch (lines 114-117): the map is emptied whatever the
\* calls returned, and the running count is reset.
clearBatch(s) ==
    [s EXCEPT !.batch = EmptyBatch, !.totalURLs = 0,
              !.cur = "none", !.res = EmptyBatch, !.why = "none"]

\* Exit cases without their return: the worker goes back to its select.
afterFlush_NoReturn(s, reason) ==
    IF reason = "count" /\ DOMAIN s.batch # {}
    THEN [startOrResetTimer(s) EXCEPT !.pc = "select"]
    ELSE [stopTimer(s) EXCEPT !.pc = "select"]

\* What each select case does once processBatch has returned.
afterFlush(s, reason) ==
    CASE reason \in {"cancel", "closed"} ->
            [stopTimer(s) EXCEPT !.pc = "done"]               \* 153-155, 161-163
      [] reason = "timer" ->
            [stopTimer(s) EXCEPT !.pc = "select"]             \* 182-183
      [] OTHER ->                                             \* 171-176
            [(IF DOMAIN s.batch = {} THEN stopTimer(s)
              ELSE startOrResetTimer(s)) EXCEPT !.pc = "select"]

\* A range loop that stops at the first call that returned an error.
RemainingKeys_AbortOnError(s) ==
    IF \E k \in DOMAIN s.res : s.res[k] = "err" THEN {}
    ELSE DOMAIN s.batch \ DOMAIN s.res

\* The keys the range loop of processBatch has still to visit (line 97):
\* every key of the map once, whatever the earlier calls returned.
RemainingKeys(s) == DOMAIN s.batch \ DOMAIN s.res

\* A call that passes the key's items without the oldest one.
CallRecord_DropOldest(s, k, reason) ==
    [key |-> k,
     items |-> IF Len(s.batch[k].items) > 1 THEN Tail(s.batch[k].items)
               ELSE s.batch[k].items,
     ids |-> s.batch[k].ids, why |-> reason]

\* One DeleteUserURLs(userID, urlIDs) call as the service sees it.
CallRecord(s, k, reason) ==
    [key |-> k, items |-> s.batch[k].items, ids |-> s.batch[k].ids,
     why |-> reason]

\* processBatch (lines 87-118) up to its first blocking point: an empty map
\* returns at once; otherwise the range loop enters DeleteUserURLs for some
\* key (Go's map iteration order is unspecified).
processBatch(w, s, reason) ==
    IF DOMAIN s.batch = {}
    THEN /\ worker' = [worker EXCEPT ![w] = afterFlush(s, reason)]
         /\ UNCHANGED calls
    ELSE \E k \in DOMAIN s.batch :
           /\ worker' = [worker EXCEPT ![w] =
                  [s EXCEPT !.pc = "calling", !.cur = k, !.why = reason,
                            !.res = EmptyBatch]]
           /\ calls' = [calls EXCEPT ![w] = Append(@, CallRecord(s, k, reason))]

\* Start (lines 64-75): every worker goroutine is spawned.
Start ==
    /\ ~started
    /\ started' = TRUE
    /\ worker' = [w \in Workers |-> [worker[w] EXCEPT !.pc = "select"]]
    /\ UNCHANGED <<requestChan, closed, cancelled, panics, calls, cpc, creq,
                   nsub, accepted, spc, seen,
                   poolVars, appVars>>

\* Workers that take turns: none runs its select while another is inside
\* a DeleteUserURLs call.
AtSelect_OneAtATime(w) ==
    /\ worker[w].pc = "select"
    /\ \A x \in Workers : worker[x].pc # "calling"

\* Worker w is at the select of its loop (lines 149-150); each worker is a
\* goroutine of its own (line 73) and waits for no other worker.
AtSelect(w) == worker[w].pc = "select"

\* A cancellation case that exits without flushing the pending batch.
WorkerCancel_NoFlush(w) ==
    /\ AtSelect(w) /\ cancelled
    /\ worker' = [worker EXCEPT ![w] = [stopTimer(@) EXCEPT !.pc = "done"]]
    /\ UNCHANGED <<started, requestChan, closed, cancelled, panics, calls,
                   cpc, creq, nsub, accepted, spc, seen, poolVars, appVars>>

\* case <-p.ctx.Done() (lines 151-155).
WorkerCancel(w) ==
    /\ AtSelect(w) /\ cancelled
    /\ processBatch(w, worker[w], "cancel")
    /\ UNCHANGED <<started, requestChan, closed, cancelled, panics, cpc, creq,
                   nsub, accepted, spc, seen,
                   poolVars, appVars>>

\* An end-of-stream case taken as soon as the channel is closed, with
\* requests still buffered.
WorkerClosed_Early(w) ==
    /\ AtSelect(w)
    /\ closed
    /\ processBatch(w, worker[w], "closed")
    /\ UNCHANGED <<started, requestChan, closed, cancelled, panics, cpc, creq,
                   nsub, accepted, spc, seen, poolVars, appVars>>

\* case req, ok := <-p.requestChan with ok = false (lines 157-164).
WorkerClosed(w) ==
    /\ AtSelect(w)
    /\ closed /\ requestChan = <<>>
    /\ processBatch(w, worker[w], "closed")
    /\ UNCHANGED <<started, requestChan, closed, cancelled, panics, cpc, creq,
                   nsub, accepted, spc, seen,
                   poolVars, appVars>>

\* A merge below the threshold that re-arms the timer every time.
afterMerge_AlwaysReset(s, batchWasEmpty) == startOrResetTimer(s)

\* The else branch of the threshold test (lines 177-179): the timer is
\* armed when the batch was empty before the merge, and left alone otherwise.
afterMerge(s, batchWasEmpty) ==
    IF batchWasEmpty THEN startOrResetTimer(s) ELSE s

\* A receive that leaves the request in the buffer for the next receiver.
Dequeue_Peek(q) == q

\* What the receive of line 157 leaves in the buffer: the oldest value is
\* taken out by the one goroutine that receives it.
Dequeue(q) == Tail(q)

\* case req, ok := <-p.requestChan with ok = true (lines 157, 166-179).
WorkerRecv(w) ==
    /\ AtSelect(w)
    /\ requestChan # <<>>
    /\ LET req == Head(requestChan)
           batchWasEmpty == DOMAIN worker[w].batch = {}
           s == Merge(worker[w], req)
       IN /\ requestChan' = Dequeue(requestChan)
          /\ IF ReachedBatchSize(s.totalURLs)
             THEN processBatch(w, s, "count")
             ELSE /\ worker' = [worker EXCEPT ![w] = afterMerge(s, batchWasEmpty)]
                  /\ UNCHANGED calls
    /\ UNCHANGED <<started, closed, cancelled, panics, cpc, creq,
                   nsub, accepted, spc, seen,
                   poolVars, appVars>>

\* case <-timerC (lines 181-183): the expiry is received from the channel.
WorkerTimer(w) ==
    /\ AtSelect(w)
    /\ worker[w].timerC /\ worker[w].timer = "fired"
    /\ processBatch(w, [worker[w] EXCEPT !.timer = "stopped"], "timer")
    /\ UNCHANGED <<started, requestChan, closed, cancelled, panics, cpc, creq,
                   nsub, accepted, spc, seen,
                   poolVars, appVars>>

\* The runtime expires an armed timer after batchTimeout: the expiry waits
\* in timer.C.
TimerFire(w) ==
    /\ worker[w].timer = "armed"
    /\ worker' = [worker EXCEPT ![w].timer = "fired"]
    /\ UNCHANGED <<started, requestChan, closed, cancelled, panics, calls,
                   cpc, creq, nsub, accepted, spc, seen,
                   poolVars, appVars>>

\* DeleteUserURLs returns r (lines 98-111): the result is only logged; the
\* loop goes on to another key, or processBatch ends and the select case
\* that called it finishes.
CallReturn(w, r) ==
    /\ worker[w].pc = "calling"
    /\ LET s == [worker[w] EXCEPT
                    !.res = [k \in DOMAIN worker[w].res \cup {worker[w].cur} |->
                               IF k = worker[w].cur THEN r ELSE worker[w].res[k]]]
       IN IF RemainingKeys(s) = {}
          THEN /\ worker' = [worker EXCEPT ![w] = afterFlush(clearBatch(s), s.why)]
               /\ UNCHANGED calls
          ELSE \E k \in RemainingKeys(s) :
                 /\ worker' = [worker EXCEPT ![w] = [s EXCEPT !.cur = k]]
                 /\ calls' = [calls EXCEPT ![w] = Append(@, CallRecord(s, k, s.why))]
    /\ UNCHANGED <<started, requestChan, closed, cancelled, panics, cpc, creq,
                   nsub, accepted, spc, seen,
                   poolVars, appVars>>

\* ---------------------------------------------------------------- Submit
\* A send case that also takes the request when the buffer is full.
CanSend_Overfill == ~closed /\ Len(requestChan) <= BufferSize

\* The send case of a select is ready when the buffer has room.
CanSend == ~closed /\ Len(requestChan) < BufferSize

NewReq(k, items) == [id |-> nsub + 1, key |-> k, items |-> items]

\* Submit, case <-p.ctx.Done() of the outer select (lines 190-191).
SubmitCanceled(c) ==
    /\ started /\ cpc[c] = "idle" /\ nsub < MaxSubmits
    /\ cancelled
    /\ nsub' = nsub + 1
    /\ UNCHANGED <<started, requestChan, closed, cancelled, panics, worker,
                   calls, cpc, creq, accepted, spc, seen,
                   poolVars, appVars>>

\* Submit, the send case of the outer select on a closed channel (line 192):
\* the send panics, the call ends, and the handler's Recoverer recovers.
SubmitPanic(c) ==
    /\ started /\ cpc[c] = "idle" /\ nsub < MaxSubmits
    /\ closed
    /\ nsub' = nsub + 1
    /\ panics' = panics + 1
    /\ UNCHANGED <<started, requestChan, closed, cancelled, worker,
                   calls, cpc, creq, accepted, spc, seen,
                   poolVars, appVars>>

\* Submit, the send case of the outer select (lines 192-197).
SubmitEnqueue(c, k, items) ==
    /\ started /\ cpc[c] = "idle" /\ nsub < MaxSubmits
    /\ CanSend
    /\ nsub' = nsub + 1
    /\ requestChan' = Append(requestChan, NewReq(k, items))
    /\ accepted' = Append(accepted, NewReq(k, items))
    /\ UNCHANGED <<started, closed, cancelled, panics, worker,
                   calls, cpc, creq, spc, seen,
                   poolVars, appVars>>

\* Submit, default of the outer select (lines 198-204): no case is ready,
\* the caller enters the blocking select.
SubmitBlock(c, k, items) ==
    /\ started /\ cpc[c] = "idle" /\ nsub < MaxSubmits
    /\ ~cancelled /\ ~closed /\ ~CanSend
    /\ nsub' = nsub + 1
    /\ cpc' = [cpc EXCEPT ![c] = "blocked"]
    /\ creq' = [creq EXCEPT ![c] = NewReq(k, items)]
    /\ UNCHANGED <<started, requestChan, closed, cancelled, panics, worker,
                   calls, accepted, spc, seen,
                   poolVars, appVars>>

\* The inner select, case <-p.ctx.Done() (lines 205-206).
BlockedCanceled(c) ==
    /\ cpc[c] = "blocked"
    /\ cancelled
    /\ cpc' = [cpc EXCEPT ![c] = "idle"]
    /\ creq' = [creq EXCEPT ![c] = NoReq]
    /\ UNCHANGED <<started, requestChan, closed, cancelled, panics, worker,
                   calls, nsub, accepted, spc, seen,
                   poolVars, appVars>>

\* The inner select, the send case (lines 207-208).
BlockedEnqueue(c) ==
    /\ cpc[c] = "blocked"
    /\ CanSend
    /\ requestChan' = Append(requestChan, creq[c])
    /\ accepted' = Append(accepted, creq[c])
    /\ cpc' = [cpc EXCEPT ![c] = "idle"]
    /\ creq' = [creq EXCEPT ![c] = NoReq]
    /\ UNCHANGED <<started, closed, cancelled, panics, worker,
                   calls, nsub, spc, seen,
                   poolVars, appVars>>

\* The inner select, the send case once the channel is closed (line 207):
\* the blocked sender is woken by close and panics; the call ends and the
\* handler's Recoverer recovers.
BlockedPanic(c) ==
    /\ cpc[c] = "blocked"
    /\ closed
    /\ panics' = panics + 1
    /\ cpc' = [cpc EXCEPT ![c] = "idle"]
    /\ creq' = [creq EXCEPT ![c] = NoReq]
    /\ UNCHANGED <<started, requestChan, closed, cancelled, worker,
                   calls, nsub, accepted, spc, seen,
                   poolVars, appVars>>

\* ---------------------------------------------------------------- Shutdown
\* wg.Wait() has returned and done is closed (lines 222-225).
AllWorkersDone == \A w \in Workers : worker[w].pc = "done"

\* The call whose shutdownOnce.Do ran f has returned.
OnceReturned == \E s \in ShutdownCalls : spc[s] \in {"firstNil", "firstDeadline"}

\* Shutdown, the call that takes shutdownOnce (lines 216-219): the channel
\* is closed.
ShutdownFirst(s) ==
    /\ started /\ spc[s] = "idle"
    /\ s = FirstCall /\ ~closed
    /\ closed' = TRUE
    /\ spc' = [spc EXCEPT ![s] = "waiting"]
    /\ seen' = [seen EXCEPT ![s] = Len(accepted)]
    /\ UNCHANGED <<started, requestChan, cancelled, panics, worker, calls,
                   cpc, creq, nsub, accepted,
                   poolVars, appVars>>

\* Shutdown, case <-done (lines 228-229), then return shutdownErr = nil.
ShutdownGraceful(s) ==
    /\ spc[s] = "waiting"
    /\ AllWorkersDone
    /\ spc' = [spc EXCEPT ![s] = "firstNil"]
    /\ UNCHANGED <<started, requestChan, closed, cancelled, panics, worker,
                   calls, cpc, creq, nsub, accepted, seen,
                   poolVars, appVars>>

\* Shutdown, case <-time.After(timeout) (lines 230-232): p.cancel().
ShutdownTimeout(s) ==
    /\ spc[s] = "waiting"
    /\ cancelled' = TRUE
    /\ spc' = [spc EXCEPT ![s] = "forced"]
    /\ UNCHANGED <<started, requestChan, closed, panics, worker,
                   calls, cpc, creq, nsub, accepted, seen,
                   poolVars, appVars>>

\* A forced path that returns right after the cancel, without <-done.
ShutdownForcedReturn_NoWait(s) ==
    /\ spc[s] = "forced"
    /\ spc' = [spc EXCEPT ![s] = "firstDeadline"]
    /\ UNCHANGED <<started, requestChan, closed, cancelled, panics, worker,
                   calls, cpc, creq, nsub, accepted, seen,
                   poolVars, appVars>>

\* Shutdown, <-done after the cancel (lines 233-234), then return
\* context.DeadlineExceeded.
ShutdownForcedReturn(s) ==
    /\ spc[s] = "forced"
    /\ AllWorkersDone
    /\ spc' = [spc EXCEPT ![s] = "firstDeadline"]
    /\ UNCHANGED <<started, requestChan, closed, cancelled, panics, worker,
                   calls, cpc, creq, nsub, accepted, seen,
                   poolVars, appVars>>

\* A Shutdown without the Once: a repeated call closes the channel again,
\* which panics.
ShutdownAgain_NoOnce(s) ==
    /\ started /\ spc[s] = "idle"
    /\ s # FirstCall /\ closed
    /\ panics' = panics + 1
    /\ spc' = [spc EXCEPT ![s] = "onceWait"]
    /\ seen' = [seen EXCEPT ![s] = Len(accepted)]
    /\ UNCHANGED <<started, requestChan, closed, cancelled, worker, calls,
                   cpc, creq, nsub, accepted,
                   poolVars, appVars>>

\* Shutdown called when shutdownOnce is already taken (line 216): Do waits
\* for the first call's f.
ShutdownAgain(s) ==
    /\ started /\ spc[s] = "idle"
    /\ s # FirstCall /\ closed
    /\ spc' = [spc EXCEPT ![s] = "onceWait"]
    /\ seen' = [seen EXCEPT ![s] = Len(accepted)]
    /\ UNCHANGED <<started, requestChan, closed, cancelled, panics, worker, calls,
                   cpc, creq, nsub, accepted,
                   poolVars, appVars>>

\* The repeated call returns its own shutdownErr, which is nil (line 238).
ShutdownAgainReturn(s) ==
    /\ spc[s] = "onceWait"
    /\ OnceReturned
    /\ spc' = [spc EXCEPT ![s] = "againNil"]
    /\ UNCHANGED <<started, requestChan, closed, cancelled, panics, worker,
                   calls, cpc, creq, nsub, accepted, seen,
                   poolVars, appVars>>

\* ---------------------------------------------------------------- Stats
\* The PoolStats value Stats() returns when called in the current state
\* (lines 241-247): len and cap of the channel, and workerCount.
Stats ==
    [QueueSize |-> Len(requestChan),
     QueueCap |-> BufferSize,
     WorkerCount |-> Cardinality(Workers)]

\* A call of Stats (lines 241-247): it reads and assigns nothing.
StatsCall ==
    UNCHANGED vars

\* ---------------------------------------------------------------- object pool
\* pool.Pool[T] of internal/pool/pool.go, a wrapper of sync.Pool.  The
\* callers put only objects they hold, that is, objects not in the pool.

\* var zero T: the nil pointer for the pointer types the pool is used with.
Zero == 0

\* The objects callers may put: one more than the capacity given to New.
PoolObjects == 1..(PoolCapacity + 1)

\* New(capacity) (lines 26-28): an empty sync.Pool; capacity is not stored.
New ==
    /\ poolItems = {}
    /\ poolLog = <<>>
    /\ dirty = PoolObjects

\* item.Reset() (line 47): the fields of the object are zeroed.
Reset(item) == dirty \ {item}

\* Put(item) (lines 44-50): the zero value is ignored; any other item is
\* reset and handed to sync.Pool.Put, which keeps it whatever the number of
\* objects it already holds.
Put(item) ==
    /\ Len(poolLog) < MaxPoolOps
    /\ item \notin poolItems
    /\ IF item # Zero
       THEN /\ dirty' = Reset(item)
            /\ poolItems' = poolItems \cup {item}
       ELSE UNCHANGED <<dirty, poolItems>>
    /\ poolLog' = Append(poolLog, [op |-> "put", item |-> item])
    /\ UNCHANGED <<workerPoolVars, appVars>>

\* Get() (lines 32-39): sync.Pool.Get returns one of the objects it holds,
\* in no specified order, or nil when it holds none, and then Get returns
\* the zero value.
Get ==
    /\ Len(poolLog) < MaxPoolOps
    /\ \E val \in (IF poolItems = {} THEN {Zero} ELSE poolItems) :
          /\ poolItems' = poolItems \ {val}
          /\ poolLog' = Append(poolLog, [op |-> "get", item |-> val])
    /\ UNCHANGED <<dirty, workerPoolVars, appVars>>

\* A caller sets fields of an object it holds.
Use(item) ==
    /\ item \in PoolObjects \ (poolItems \cup dirty)
    /\ dirty' = dirty \cup {item}
    /\ UNCHANGED <<poolItems, poolLog, workerPoolVars, appVars>>

\* The garbage collector drops an object held by sync.Pool (lines 42-43).
CollectGarbage(item) ==
    /\ item \in poolItems
    /\ poolItems' = poolItems \ {item}
    /\ UNCHANGED <<dirty, poolLog, workerPoolVars, appVars>>

\* ---------------------------------------------------------------- spec
\* NewDeleteWorkerPool (lines 48-62).
Init ==
    /\ started = FALSE
    /\ requestChan = <<>>
    /\ closed = FALSE
    /\ cancelled = FALSE
    /\ panics = 0
    /\ worker = [w \in Workers |-> WorkerInit]
    /\ calls = [w \in Workers |-> <<>>]
    /\ cpc = [c \in Callers |-> "idle"]
    /\ creq = [c \in Callers |-> NoReq]
    /\ nsub = 0
    /\ accepted = <<>>
    /\ spc = [s \in ShutdownCalls |-> "idle"]
    /\ seen = [s \in ShutdownCalls |-> 0]
    /\ New
    /\ dbClosed = FALSE

WorkerStep(w) ==
    \/ WorkerCancel(w)
    \/ WorkerClosed(w)
    \/ WorkerRecv(w)
    \/ WorkerTimer(w)
    \/ \E r \in Results : CallReturn(w, r)

SubmitStep(c) ==
    \/ SubmitCanceled(c)
    \/ SubmitPanic(c)
    \/ \E k \in Keys, items \in ItemSeqs : SubmitEnqueue(c, k, items)
    \/ \E k \in Keys, items \in ItemSeqs : SubmitBlock(c, k, items)
    \/ BlockedCanceled(c)
    \/ BlockedEnqueue(c)
    \/ BlockedPanic(c)

ShutdownStep(s) ==
    \/ ShutdownFirst(s)
    \/ ShutdownGraceful(s)
    \/ ShutdownTimeout(s)
    \/ ShutdownForcedReturn(s)
    \/ ShutdownAgain(s)
    \/ ShutdownAgainReturn(s)

Next ==
    \/ Start
    \/ \E w \in Workers : WorkerStep(w)
    \/ \E w \in Workers : TimerFire(w)
    \/ \E c \in Callers : SubmitStep(c)
    \/ \E s \in ShutdownCalls : ShutdownStep(s)
    \/ StatsCall

Spec == Init /\ [][Next]_vars

\* Fairness of the Go scheduler and runtime: a goroutine that can run does
\* run, an armed timer expires, the timeout of Shutdown elapses.  Nothing
\* obliges a caller to call Submit or Shutdown.
SchedulerFair ==
    /\ \A w \in Workers :
         /\ WF_vars(WorkerCancel(w) \/ WorkerClosed(w) \/ WorkerRecv(w) \/ WorkerTimer(w))
         /\ WF_vars(TimerFire(w))
    /\ \A c \in Callers :
         WF_vars(BlockedCanceled(c) \/ BlockedEnqueue(c) \/ BlockedPanic(c))
    /\ \A s \in ShutdownCalls :
         WF_vars(ShutdownGraceful(s) \/ ShutdownTimeout(s)
                   \/ ShutdownForcedReturn(s) \/ ShutdownAgainReturn(s))

\* The pool with a DeleteService whose calls need not return.
HangSpec == Init /\ [][Next]_vars /\ SchedulerFair

\* The running pool: started, Shutdown never called.
NextRunning ==
    \/ Start
    \/ \E w \in Workers : WorkerRecv(w)
    \/ \E w \in Workers : WorkerTimer(w)
    \/ \E w \in Workers, r \in Results : CallReturn(w, r)
    \/ \E w \in Workers : TimerFire(w)
    \/ \E c \in Callers, k \in Keys, items \in ItemSeqs : SubmitEnqueue(c, k, items)
    \/ \E c \in Callers, k \in Keys, items \in ItemSeqs : SubmitBlock(c, k, items)
    \/ \E c \in Callers : BlockedEnqueue(c)

\* The running pool under a fair scheduler, timers that expire and a
\* DeleteService whose calls return.
RunningSpec ==
    /\ Init /\ [][NextRunning]_vars
    /\ \A w \in Workers :
         /\ WF_vars(WorkerRecv(w) \/ WorkerTimer(w))
         /\ WF_vars(\E r \in Results : CallReturn(w, r))
         /\ WF_vars(TimerFire(w))

\* The pool with a DeleteService whose every call returns an error
\* (MockDeleteService with shouldFail).
NextFailing ==
    \/ Start
    \/ \E w \in Workers : WorkerCancel(w)
    \/ \E w \in Workers : WorkerClosed(w)
    \/ \E w \in Workers : WorkerRecv(w)
    \/ \E w \in Workers : WorkerTimer(w)
    \/ \E w \in Workers : CallReturn(w, "err")
    \/ \E w \in Workers : TimerFire(w)
    \/ \E c \in Callers : SubmitStep(c)
    \/ \E s \in ShutdownCalls : ShutdownStep(s)

FailingSpec == Init /\ [][NextFailing]_vars

\* The pool under a fair scheduler, timers that expire, a Shutdown timeout
\* that elapses and a DeleteService whose every call returns.
ReturningSpec ==
    /\ Init /\ [][Next]_vars /\ SchedulerFair
    /\ \A w \in Workers : WF_vars(\E r \in Results : CallReturn(w, r))

\* The pool as the application uses it: Shutdown is called once.
NextOneShutdown ==
    \/ Start
    \/ \E w \in Workers : WorkerStep(w)
    \/ \E w \in Workers : TimerFire(w)
    \/ \E c \in Callers : SubmitStep(c)
    \/ ShutdownFirst(FirstCall)
    \/ ShutdownGraceful(FirstCall)
    \/ ShutdownTimeout(FirstCall)
    \/ ShutdownForcedReturn(FirstCall)

OneShutdownSpec == Init /\ [][NextOneShutdown]_vars

\* App.cleanup, its first statement (app.go lines 109-112): the database
\* connection of the storage the DeleteService writes to is closed.
CloseDatabase ==
    /\ started /\ ~dbClosed
    /\ dbClosed' = TRUE
    /\ UNCHANGED <<workerPoolVars, poolVars>>

\* App.cleanup, its second statement (app.go lines 114-120): Shutdown is
\* called once the database connection has been closed.
AppShutdown ==
    /\ dbClosed
    /\ ShutdownFirst(FirstCall)

\* The application: NewApp starts the pool, the handlers call Submit, and
\* Run's deferred cleanup closes the database and then shuts the pool down.
NextApp ==
    \/ Start
    \/ \E w \in Workers : WorkerStep(w)
    \/ \E w \in Workers : TimerFire(w)
    \/ \E c \in Callers : SubmitStep(c)
    \/ CloseDatabase
    \/ AppShutdown
    \/ ShutdownGraceful(FirstCall)
    \/ ShutdownTimeout(FirstCall)
    \/ ShutdownForcedReturn(FirstCall)

AppSpec == Init /\ [][NextApp]_vars

\* The object pool used by one goroutine at a time.
NextPool ==
    \/ \E item \in PoolObjects \cup {Zero} : Put(item)
    \/ Get
    \/ \E item \in PoolObjects : Use(item)
    \/ \E item \in PoolObjects : CollectGarbage(item)

PoolSpec == Init /\ [][NextPool]_vars

\* ---------------------------------------------------------------- history
\* The ids of the requests whose items have been passed to DeleteUserURLs.
PassedIds ==
    UNION {UNION {calls[w][j].ids : j \in 1..Len(calls[w])} : w \in Workers}

AcceptedIds == {accepted[j].id : j \in 1..Len(accepted)}

\* Occurrences of item i in a sequence of items.
Occurrences(items, i) == Cardinality({j \in 1..Len(items) : items[j] = i})

RECURSIVE CountIn(_, _, _)
\* Occurrences of item i under key k in a sequence of records with key, items.
CountIn(recs, k, i) ==
    IF recs = <<>> THEN 0
    ELSE (IF Head(recs).key = k THEN Occurrences(Head(recs).items, i) ELSE 0)
         + CountIn(Tail(recs), k, i)

RECURSIVE SumOver(_, _, _)
SumOver(S, k, i) ==
    IF S = {} THEN 0
    ELSE LET w == CHOOSE x \in S : TRUE
         IN CountIn(calls[w], k, i) + SumOver(S \ {w}, k, i)

\* How often item i of key k has been passed to DeleteUserURLs.
PassedCount(k, i) == SumOver(Workers, k, i)
\* How often item i of key k has been submitted in an accepted request.
AcceptedCount(k, i) == CountIn(accepted, k, i)

RECURSIVE TotalItems(_)
TotalItems(recs) ==
    IF recs = <<>> THEN 0 ELSE Len(Head(recs).items) + TotalItems(Tail(recs))

NumCalls == LET RECURSIVE N(_)
                N(S) == IF S = {} THEN 0
                        ELSE LET w == CHOOSE x \in S : TRUE
                             IN Len(calls[w]) + N(S \ {w})
            IN N(Workers)

\* Every worker waits in its select with nothing to receive.
Quiescent ==
    /\ started /\ requestChan = <<>>
    /\ \A w \in Workers : worker[w].pc = "select"
    /\ \A c \in Callers : cpc[c] = "idle"

\* ---------------------------------------------------------------- claims
\* A step in which a Submit call begins.
SubmitBegins == nsub' = nsub + 1

\* C1: a Submit call that begins once Shutdown has closed the queue returns
\* the cancellation error: nothing is enqueued, the caller does not block,
\* the call does not panic.
C1_SubmitAfterShutdownIsCancelled ==
    [][(closed /\ SubmitBegins) =>
          /\ panics' = panics
          /\ requestChan' = requestChan /\ accepted' = accepted
          /\ cpc' = cpc]_vars

\* C2: no Submit call that was already in progress (blocked on the full
\* queue) when another goroutine takes a step ends by a panic: a step that
\* is not the beginning of a Submit call never panics.
C2_BlockedSubmitNeverPanics ==
    [][~SubmitBegins => panics' = panics]_vars

\* C3: when a Shutdown call, the first or a repeated one, has returned nil,
\* every request accepted before that call began has been passed to
\* DeleteUserURLs.
C3_NilShutdownMeansDelivered ==
    \A s \in ShutdownCalls :
        spc[s] \in {"firstNil", "againNil"} =>
            \A j \in 1..seen[s] : accepted[j].id \in PassedIds

\* C4: once the timeout of Shutdown has elapsed, Shutdown eventually returns
\* the deadline-exceeded error, also when a DeleteUserURLs call never
\* returns.
C4_ShutdownReturnsAfterDeadline ==
    \A s \in ShutdownCalls :
        (spc[s] = "forced") ~> (spc[s] = "firstDeadline")

\* C5: while Shutdown has not been called, no item of a key is passed to
\* DeleteUserURLs more often than accepted requests carry it, and when the
\* queue and every worker's batch are empty the two counts are equal.
C5_Conservation ==
    ~closed =>
        \A k \in Keys, i \in Items :
            /\ PassedCount(k, i) <= AcceptedCount(k, i)
            /\ (requestChan = <<>> /\ \A w \in Workers : DOMAIN worker[w].batch = {})
                  => PassedCount(k, i) = AcceptedCount(k, i)

\* C5 witness: two accepted requests with items, all flushed, pool running.
C5_Witness ==
    /\ ~closed /\ Quiescent
    /\ \A w \in Workers : DOMAIN worker[w].batch = {}
    /\ Len(accepted) >= 2 /\ TotalItems(accepted) >= 2
    /\ \E k \in Keys : PassedCount(k, "a") >= 2

\* C6: on the running pool (started, Shutdown not called) every accepted
\* request is eventually passed to DeleteUserURLs, given a fair scheduler,
\* timers that expire and calls that return, with no Submit call required.
C6_AcceptedEventuallyPassed ==
    \A i \in 1..MaxSubmits : (i \in AcceptedIds) ~> (i \in PassedIds)

\* C6 witness: a request below the batch size was flushed by the timer
\* while no other request was ever submitted.
C6_Witness ==
    /\ nsub = 1 /\ AcceptedIds = {1} /\ PassedIds = {1}
    /\ \E w \in Workers : Len(calls[w]) = 1 /\ calls[w][1].why = "timer"

\* C7: the queue never holds more than BufferSize requests, and a Submit
\* blocked on the full queue stays blocked until a slot is free (its request
\* is enqueued and it returns nil) or the context is cancelled (it returns
\* the cancellation error).
C7_BlockedUntilSlotOrCancel ==
    [][/\ Len(requestChan') <= BufferSize
       /\ \A c \in Callers :
            (cpc[c] = "blocked" /\ ~SubmitBegins) =>
                \/ cpc'[c] = "blocked"
                \/ /\ cpc'[c] = "idle" /\ Len(requestChan) < BufferSize
                   /\ requestChan' = Append(requestChan, creq[c])
                   /\ accepted' = Append(accepted, creq[c])
                   /\ panics' = panics
                \/ /\ cpc'[c] = "idle" /\ cancelled
                   /\ requestChan' = requestChan /\ accepted' = accepted
                   /\ panics' = panics]_vars

\* C8: once the accepted requests carry at least BatchSize items, a flush
\* has been made before the workers wait again, without a timer expiry:
\* the pool is never waiting with that many items accepted and no call to
\* DeleteUserURLs made.
C8_ThresholdFlushesImmediately ==
    (Quiescent /\ ~closed /\ TotalItems(accepted) >= BatchSize) => NumCalls > 0

\* The only Submit call so far was accepted, carries fewer items than
\* BatchSize, and Shutdown has not been called.
SingleSmallRequest ==
    /\ nsub = 1 /\ Len(accepted) = 1 /\ ~closed
    /\ Len(accepted[1].items) < BatchSize

\* C9: a single request below BatchSize on an idle running pool leads to one
\* DeleteUserURLs call in total, with its key and its items in order, made
\* by the timer case of the worker that dequeued it.
C9_SingleRequestOneTimerCall ==
    SingleSmallRequest =>
        /\ NumCalls <= 1
        /\ \A w \in Workers : \A j \in 1..Len(calls[w]) :
              /\ calls[w][j].key = accepted[1].key
              /\ calls[w][j].items = accepted[1].items
              /\ calls[w][j].why = "timer"
        /\ (Quiescent /\ \A w \in Workers : DOMAIN worker[w].batch = {})
              => NumCalls = 1

\* C9 witness: the single request has been flushed by the timer and the
\* pool is idle again.
C9_Witness ==
    /\ SingleSmallRequest /\ Quiescent /\ NumCalls = 1
    /\ accepted[1].items = <<"a">>
    /\ \E w \in Workers : calls[w] = <<[key |-> accepted[1].key, items |-> <<"a">>,
                                        ids |-> {1}, why |-> "timer"]>>

\* A step in which worker w leaves processBatch.
FlushEnds(w) == worker[w].pc = "calling" /\ worker'[w].pc # "calling"

\* C10: when a flush ends, DeleteUserURLs has been invoked in it for every
\* key of the batch, whatever the calls returned: the last calls of the
\* worker are one call per key of the batch.
C10_EveryKeyInvoked ==
    [][\A w \in Workers :
         FlushEnds(w) =>
            LET keys == DOMAIN worker[w].batch
                n == Cardinality(keys)
                L == Len(calls[w])
            IN /\ keys = DOMAIN worker[w].res \cup {worker[w].cur}
               /\ L >= n
               /\ {calls[w][j].key : j \in (L - n + 1)..L} = keys]_vars

\* C10 witness: a call of the current flush returned an error and the
\* worker is inside the call for another key of the same flush.
C10_Witness ==
    \E w \in Workers :
        /\ worker[w].pc = "calling"
        /\ \E k \in DOMAIN worker[w].res :
              worker[w].res[k] = "err" /\ k # worker[w].cur

\* How many DeleteUserURLs calls carried the items of request i.
TimesPassed(i) ==
    Cardinality({<<w, j>> \in Workers \X (1..(2 * MaxSubmits)) :
                    j <= Len(calls[w]) /\ i \in calls[w][j].ids})

\* The ids of the requests held in the batch of worker w.
BatchIds(w) == UNION {worker[w].batch[k].ids : k \in DOMAIN worker[w].batch}

\* C11: with every DeleteUserURLs call returning an error, the items of a
\* request are passed at most once, and a worker outside processBatch holds
\* no request that has already been passed: the failed keys were cleared
\* with the rest of the batch.
C11_FailedItemsNeverPassedAgain ==
    /\ \A i \in 1..MaxSubmits : TimesPassed(i) <= 1
    /\ \A w \in Workers :
          worker[w].pc # "calling" => BatchIds(w) \cap PassedIds = {}

\* C11 witness: a worker whose call failed has cleared its batch and has
\* since flushed another request.
C11_Witness ==
    \E w \in Workers :
        /\ worker[w].pc = "select" /\ DOMAIN worker[w].batch = {}
        /\ Len(calls[w]) = 2
        /\ calls[w][1].ids = {1} /\ calls[w][2].ids = {2}
        /\ calls[w][1].key = calls[w][2].key

\* A Shutdown call that has returned nil.
ReturnedNil(s) == spc[s] \in {"firstNil", "againNil"}

\* C12: a Shutdown call returns the deadline-exceeded error exactly when the
\* cancellation was broadcast; when a call has returned nil, cancellation
\* was never broadcast and every worker exited on the closed, drained queue.
C12_DeadlineErrorIffForced ==
    \A s \in ShutdownCalls :
        /\ spc[s] = "firstDeadline" => cancelled
        /\ ReturnedNil(s) =>
              ~cancelled /\ AllWorkersDone /\ requestChan = <<>>

\* The state of the pool, without the bookkeeping of the Shutdown calls.
PoolState == <<started, requestChan, closed, cancelled, panics, worker,
               calls, cpc, creq, nsub, accepted>>

\* C13: the queue is closed and the cancellation broadcast only by steps of
\* the first Shutdown call; a step of a later or concurrent call changes no
\* pool state, and such a call only waits for the Once and returns nil.
C13_RepeatedShutdownIsNoOp ==
    [][/\ (closed' # closed \/ cancelled' # cancelled)
            => spc'[FirstCall] # spc[FirstCall]
       /\ \A s \in ShutdownCalls \ {FirstCall} :
            spc'[s] # spc[s] =>
                /\ UNCHANGED PoolState
                /\ spc'[s] \in {"onceWait", "againNil"}
                /\ spc'[FirstCall] = spc[FirstCall]]_vars

\* C13 witness: a call concurrent with a forced first call has returned nil.
C13_Witness ==
    \E s \in ShutdownCalls \ {FirstCall} :
        spc[s] = "againNil" /\ spc[FirstCall] = "firstDeadline" /\ cancelled

\* C14: a call of Stats leaves every variable unchanged, and the snapshot
\* it returns in any reachable state has 0 <= QueueSize <= QueueCap, with
\* QueueCap and WorkerCount the values given to NewDeleteWorkerPool.
C14_StatsSnapshotInRange ==
    /\ Stats.QueueSize >= 0 /\ Stats.QueueSize <= Stats.QueueCap
    /\ Stats.QueueCap = BufferSize
    /\ Stats.WorkerCount = Cardinality(Workers)

\* C14 witness: Stats can be called while the queue is full, a Submit is
\* blocked on it and Shutdown has closed it.
C14_Witness ==
    /\ Stats.QueueSize = Stats.QueueCap
    /\ \E c \in Callers : cpc[c] = "blocked"
    /\ closed

\* The ids of the requests worker w has merged: held in its batch or passed
\* by one of its calls.
MergedIds(w) ==
    BatchIds(w) \cup UNION {calls[w][j].ids : j \in 1..Len(calls[w])}

\* The ids of the requests waiting in the queue.
QueuedIds == {requestChan[j].id : j \in 1..Len(requestChan)}

\* The accepted request with id i.
AcceptedReq(i) == CHOOSE r \in {accepted[j] : j \in 1..Len(accepted)} : r.id = i

RECURSIVE ItemsOfIds(_)
\* The number of items the requests with ids in S carry.
ItemsOfIds(S) ==
    IF S = {} THEN 0
    ELSE LET i == CHOOSE x \in S : TRUE
         IN Len(AcceptedReq(i).items) + ItemsOfIds(S \ {i})

\* C15: every accepted request is in exactly one place: waiting once in the
\* queue, or merged by one worker. No request is merged by two workers, and
\* each batch entry holds the items of its requests once (the entry's length
\* is the sum of theirs, and totalURLs the sum over the entries).
C15_DequeuedExactlyOnce ==
    /\ \A i \in AcceptedIds :
          Cardinality({j \in 1..Len(requestChan) : requestChan[j].id = i})
            + Cardinality({w \in Workers : i \in MergedIds(w)}) = 1
    /\ \A w \in Workers :
          /\ MergedIds(w) \subseteq AcceptedIds
          /\ worker[w].pc # "calling" => worker[w].totalURLs = BatchItems(worker[w].batch)
          /\ \A k \in DOMAIN worker[w].batch :
                /\ Len(worker[w].batch[k].items) = ItemsOfIds(worker[w].batch[k].ids)
                /\ \A i \in worker[w].batch[k].ids : AcceptedReq(i).key = k
          /\ \A k1, k2 \in DOMAIN worker[w].batch :
                k1 # k2 => worker[w].batch[k1].ids \cap worker[w].batch[k2].ids = {}

\* C15 witness: two accepted requests with items were dequeued by different
\* workers, which hold them while the queue is empty.
C15_Witness ==
    /\ requestChan = <<>> /\ Len(accepted) = 2
    /\ \E w1, w2 \in Workers :
          /\ w1 # w2
          /\ BatchIds(w1) = {1} /\ BatchIds(w2) = {2}
          /\ worker[w1].totalURLs = 1 /\ worker[w2].totalURLs = 1

\* The items of the flush worker w is making: the whole batch map, which
\* processBatch passes key by key.
FlushSize(w) == BatchItems(worker[w].batch)

\* C16: no flush passes more than BatchSize items in total: a worker inside
\* processBatch holds a batch of at most BatchSize items.
C16_FlushAtMostBatchSize ==
    \A w \in Workers : worker[w].pc = "calling" => FlushSize(w) <= BatchSize

\* The first n calls on the object pool were Puts of distinct non-zero
\* items and every later call was a Get.
PutsThenGets(n) ==
    /\ Len(poolLog) >= n
    /\ \A j \in 1..n : poolLog[j].op = "put" /\ poolLog[j].item # Zero
    /\ \A i, j \in 1..n : i # j => poolLog[i].item # poolLog[j].item
    /\ \A j \in (n + 1)..Len(poolLog) : poolLog[j].op = "get"

\* C17: the object pool holds at most PoolCapacity items, and after
\* PoolCapacity + 1 Puts of distinct non-zero items the next PoolCapacity
\* Gets return a pooled item and the Get after them returns the zero value.
C17_PoolHoldsAtMostCapacity ==
    /\ Cardinality(poolItems) <= PoolCapacity
    /\ PutsThenGets(PoolCapacity + 1) =>
          \A j \in (PoolCapacity + 2)..Len(poolLog) :
              IF j <= 2 * PoolCapacity + 1
              THEN poolLog[j].item # Zero
              ELSE poolLog[j].item = Zero

\* The ids of the requests held in the batch of a worker that has not exited.
HeldIds ==
    UNION {BatchIds(w) : w \in {x \in Workers : worker[x].pc # "done"}}

\* C18: a worker that has exited, on either path, has an empty batch and a
\* zero count, and every accepted request that has not been passed to
\* DeleteUserURLs is still in the queue or in the batch of a worker that has
\* not exited: no request was dropped by an exiting worker.
C18_NoExitWithPendingBatch ==
    /\ \A w \in Workers :
          worker[w].pc = "done" =>
              DOMAIN worker[w].batch = {} /\ worker[w].totalURLs = 0
    /\ AcceptedIds \ PassedIds \subseteq QueuedIds \cup HeldIds

\* C18 witness: one worker exited on the closed queue and one on the
\* cancellation, each after flushing a request it held.
C18_Witness ==
    \E w1, w2 \in Workers :
        /\ worker[w1].pc = "done" /\ worker[w2].pc = "done"
        /\ Len(calls[w1]) = 1 /\ calls[w1][1].why = "closed"
        /\ Len(calls[w2]) = 1 /\ calls[w2][1].why = "cancel"

\* C19: once the cancellation has been broadcast no step takes a request
\* out of the queue, and a worker that leaves its select does so to exit:
\* it flushes for the cancellation (or the end of the stream) or is done.
C19_NoDequeueAfterCancel ==
    [][cancelled =>
          /\ Len(requestChan') >= Len(requestChan)
          /\ \A w \in Workers :
                (worker[w].pc = "select" /\ worker'[w].pc = "calling")
                    => worker'[w].why \in {"cancel", "closed"}]_vars

\* C20: while the cancellation has not been broadcast, a worker that has
\* exited, or is in its end-of-stream flush, implies the queue is closed and
\* empty; and when every worker has exited that way every accepted request
\* has been passed to DeleteUserURLs.
C20_ExitOnlyOnClosedAndEmpty ==
    /\ \A w \in Workers :
          /\ (worker[w].pc = "done" /\ ~cancelled)
                => closed /\ requestChan = <<>>
          /\ (worker[w].pc = "calling" /\ worker[w].why = "closed")
                => closed /\ requestChan = <<>>
    /\ (AllWorkersDone /\ ~cancelled) => AcceptedIds \subseteq PassedIds

\* C20 witness: Shutdown returned nil after the workers drained two accepted
\* requests, one worker flushing at the end of the stream.
C20_Witness ==
    /\ spc[FirstCall] = "firstNil" /\ ~cancelled /\ AllWorkersDone
    /\ Len(accepted) = 2 /\ seen[FirstCall] = 2
    /\ \E w \in Workers : Len(calls[w]) = 1 /\ calls[w][1].why = "closed"
                            /\ calls[w][1].ids = {1, 2}

\* A Shutdown call that has returned, with nil or with the deadline error.
Returned(s) == spc[s] \in {"firstNil", "firstDeadline", "againNil"}

\* C21: with every DeleteUserURLs call returning, once Shutdown has been
\* called every worker eventually exits and every Shutdown call in progress
\* eventually returns, whatever is queued or batched.
C21_ShutdownTerminates ==
    /\ closed ~> AllWorkersDone
    /\ \A s \in ShutdownCalls :
          (spc[s] # "idle") ~> Returned(s)

\* C21 witness: the forced path ended with every worker exited and the first
\* call returned, a worker having flushed its batch on the cancellation and a
\* request left in the queue.
C21_Witness ==
    /\ AllWorkersDone /\ spc[FirstCall] = "firstDeadline"
    /\ requestChan # <<>>
    /\ \E w \in Workers : Len(calls[w]) > 0 /\ calls[w][Len(calls[w])].why = "cancel"

\* C22: when a Shutdown call has returned, nil or the deadline error, first
\* or repeated, every worker has exited and no worker can take a step any
\* more, so no DeleteUserURLs call begins afterwards.
C22_ReturnedMeansWorkersExited ==
    \A s \in ShutdownCalls :
        Returned(s) =>
            /\ AllWorkersDone
            /\ \A w \in Workers : ~ENABLED WorkerStep(w)

\* C22 witness: the first call returned the deadline error and a concurrent
\* call returned nil, after a worker made its last call on the cancellation.
C22_Witness ==
    /\ spc[FirstCall] = "firstDeadline"
    /\ \E s \in ShutdownCalls : spc[s] = "againNil"
    /\ AllWorkersDone
    /\ \E w \in Workers : Len(calls[w]) > 0 /\ calls[w][Len(calls[w])].why = "cancel"

\* The keys for which the flush in progress at worker w has invoked
\* DeleteUserURLs: those whose call returned and the one being called.
InvokedKeys(w) == DOMAIN worker[w].res \cup {worker[w].cur}

\* The positions in calls[w] of the calls of the flush in progress.
FlushCalls(w) ==
    (Len(calls[w]) - Cardinality(InvokedKeys(w)) + 1)..Len(calls[w])

\* C23: during a flush the calls made so far are one call for each key
\* invoked, each a key of the batch, passing all the items (and requests) the
\* batch holds for that key; none of those requests was passed by an earlier
\* flush; and the flush goes on to another call until every key of the
\* batch is invoked.
C23_OneCallPerKeyWithAllItems ==
    \A w \in Workers :
        worker[w].pc = "calling" =>
            /\ worker[w].cur \notin DOMAIN worker[w].res
            /\ InvokedKeys(w) \subseteq DOMAIN worker[w].batch
            /\ Len(calls[w]) >= Cardinality(InvokedKeys(w))
            /\ \A k \in InvokedKeys(w) :
                  /\ Cardinality({j \in FlushCalls(w) : calls[w][j].key = k}) = 1
                  /\ \A j \in FlushCalls(w) :
                        calls[w][j].key = k =>
                            /\ calls[w][j].items = worker[w].batch[k].items
                            /\ calls[w][j].ids = worker[w].batch[k].ids
            /\ \A j \in 1..Len(calls[w]) :
                  j \notin FlushCalls(w) => calls[w][j].ids \cap BatchIds(w) = {}
            /\ (InvokedKeys(w) # DOMAIN worker[w].batch)
                  => ENABLED (\E r \in Results : CallReturn(w, r) /\ worker'[w].pc = "calling")

\* C23 witness: a flush of a batch with two keys is in its second call, the
\* first having returned.
C23_Witness ==
    \E w \in Workers :
        /\ worker[w].pc = "calling"
        /\ DOMAIN worker[w].batch = Keys
        /\ Cardinality(DOMAIN worker[w].res) = 1
        /\ Len(calls[w]) = 2 /\ calls[w][1].key # calls[w][2].key

RECURSIVE ItemsInOrder(_, _)
\* The items of the requests of reqs whose id is in ids, request after
\* request, each request's items as submitted.
ItemsInOrder(reqs, ids) ==
    IF reqs = <<>> THEN <<>>
    ELSE (IF Head(reqs).id \in ids THEN Head(reqs).items ELSE <<>>)
         \o ItemsInOrder(Tail(reqs), ids)

\* C24: the items of every DeleteUserURLs call, and of every batch entry,
\* are those of its requests in append order. The channel being first in
\* first out, a worker dequeues its requests in the order they entered the
\* queue, which is the order of accepted, restricted to the call's requests.
C24_ItemsInAppendOrder ==
    \A w \in Workers :
        /\ \A j \in 1..Len(calls[w]) :
              calls[w][j].items = ItemsInOrder(accepted, calls[w][j].ids)
        /\ \A k \in DOMAIN worker[w].batch :
              worker[w].batch[k].items
                  = ItemsInOrder(accepted, worker[w].batch[k].ids)

\* C24 witness: a call carried the item of the first request followed by the
\* two items of the second, in their submitted order.
C24_Witness ==
    /\ Len(accepted) = 2
    /\ accepted[1].items = <<"a">> /\ accepted[2].items = <<"b", "a">>
    /\ \E w \in Workers : \E j \in 1..Len(calls[w]) :
          calls[w][j].ids = {accepted[1].id, accepted[2].id}
          /\ calls[w][j].items = <<"a", "b", "a">>

\* A step in which worker w merges a request and goes on waiting: the
\* threshold was not reached.
MergesBelowThreshold(w) ==
    /\ worker[w].pc = "select" /\ worker'[w].pc = "select"
    /\ BatchIds(w) # BatchIds(w)'

\* C25: a merge into a non-empty batch that stays below the threshold leaves
\* the worker's timer and timer channel as they were, and a timer becomes
\* armed only in a merge into an empty batch that stays below the threshold.
C25_TimerArmedOnlyOnFirstMerge ==
    [][\A w \in Workers :
         /\ (MergesBelowThreshold(w) /\ DOMAIN worker[w].batch # {})
               => /\ worker'[w].timer = worker[w].timer
                  /\ worker'[w].timerC = worker[w].timerC
         /\ (worker'[w].timer = "armed" /\ worker[w].timer # "armed")
               => MergesBelowThreshold(w) /\ DOMAIN worker[w].batch = {}]_vars

\* C25 witness: a worker waits with two requests merged below the threshold
\* and the expiry of the timer armed by the first one pending.
C25_Witness ==
    \E w \in Workers :
        /\ worker[w].pc = "select" /\ Cardinality(BatchIds(w)) = 2
        /\ worker[w].totalURLs < BatchSize
        /\ worker[w].timer = "fired" /\ worker[w].timerC

\* The timer of worker w is running or its expiry waits in timer.C.
TimerPending(w) == worker[w].timer \in {"armed", "fired"}

\* C26: when a worker waits in its select, its timer is armed (running or
\* expired with the expiry unread, and timerC set to its channel) exactly
\* when its batch is non-empty; so the timer case is taken only with a
\* non-empty batch, and no expiry is left over from an earlier batch.
C26_TimerArmedIffBatchNonEmpty ==
    \A w \in Workers :
        worker[w].pc = "select" =>
            /\ TimerPending(w) <=> DOMAIN worker[w].batch # {}
            /\ worker[w].timerC <=> DOMAIN worker[w].batch # {}
            /\ ENABLED WorkerTimer(w) => DOMAIN worker[w].batch # {}

\* C26 witness: a worker whose timer was armed by a first request flushed on
\* the count at the second one, and waits with an empty batch and a stopped,
\* drained timer.
C26_Witness ==
    \E w \in Workers :
        /\ worker[w].pc = "select" /\ DOMAIN worker[w].batch = {}
        /\ worker[w].timer = "stopped" /\ ~worker[w].timerC
        /\ Len(calls[w]) = 1 /\ calls[w][1].why = "count"
        /\ Cardinality(calls[w][1].ids) = 2

\* C27: in the step that ends a flush, whatever triggered it and whatever
\* the calls returned, the worker's batch becomes empty and its count 0;
\* after a flush on the count the timer is therefore stopped, never re-armed.
C27_BatchEmptyAfterFlush ==
    [][\A w \in Workers :
         FlushEnds(w) =>
            /\ worker'[w].batch = EmptyBatch
            /\ worker'[w].totalURLs = 0
            /\ worker[w].why = "count" =>
                  worker'[w].timer \in {"nil", "stopped"} /\ ~worker'[w].timerC]_vars

\* C27 witness: a worker has ended a flush on the timer and then a flush on
\* the count, and waits with an empty batch and a zero count.
C27_Witness ==
    \E w \in Workers :
        /\ worker[w].pc = "select"
        /\ DOMAIN worker[w].batch = {} /\ worker[w].totalURLs = 0
        /\ Len(calls[w]) = 2
        /\ calls[w][1].why = "timer" /\ calls[w][2].why = "count"

\* C28: when a worker waits in its select, its running count totalURLs is
\* the number of items its batch holds, and it is below BatchSize.
C28_CountMatchesBatchBelowThreshold ==
    \A w \in Workers :
        worker[w].pc = "select" =>
            /\ worker[w].totalURLs = BatchItems(worker[w].batch)
            /\ worker[w].totalURLs < BatchSize

\* C28 witness: a worker waits holding one item less than BatchSize, with
\* its timer running.
C28_Witness ==
    \E w \in Workers :
        /\ worker[w].pc = "select" /\ worker[w].timer = "armed"
        /\ worker[w].totalURLs = BatchSize - 1
        /\ BatchItems(worker[w].batch) = BatchSize - 1

\* C29: while a worker is inside a DeleteUserURLs call it takes no case of
\* its select, so it dequeues nothing, and every other worker at its select
\* can take each case that is ready: dequeue and merge a queued request,
\* flush on its expired timer, flush and exit on the closed and drained
\* queue or on the cancellation.
C29_OtherWorkersNotBlocked ==
    \A w1 \in Workers :
        worker[w1].pc = "calling" =>
            /\ ~ENABLED (WorkerRecv(w1) \/ WorkerTimer(w1)
                           \/ WorkerClosed(w1) \/ WorkerCancel(w1))
            /\ \A w2 \in Workers \ {w1} :
                  worker[w2].pc = "select" =>
                      /\ requestChan # <<>> => ENABLED WorkerRecv(w2)
                      /\ worker[w2].timer = "fired" => ENABLED WorkerTimer(w2)
                      /\ (closed /\ requestChan = <<>>) => ENABLED WorkerClosed(w2)
                      /\ cancelled => ENABLED WorkerCancel(w2)

\* C29 witness: a worker is inside the call of a count flush for the first
\* request while the other worker, having dequeued the second request after
\* that call began, is inside a call of its own.
C29_Witness ==
    \E w1, w2 \in Workers :
        /\ w1 # w2
        /\ worker[w1].pc = "calling" /\ worker[w2].pc = "calling"
        /\ calls[w1] = <<[key |-> "k1", items |-> <<"b", "a">>,
                           ids |-> {1}, why |-> "count"]>>
        /\ calls[w2] = <<[key |-> "k2", items |-> <<"b", "a">>,
                           ids |-> {2}, why |-> "count"]>>

\* C30: the database connection is closed only when the pool has been shut
\* down and its final flushes are over: whenever it is closed, Shutdown has
\* returned and every worker has exited, so no DeleteUserURLs call is made
\* or in progress on a closed connection.
C30_DatabaseClosedAfterShutdown ==
    dbClosed =>
        /\ Returned(FirstCall)
        /\ AllWorkersDone

====
